---------------------------- MODULE Spec2Model ----------------------------
(***************************************************************************)
(* Labeled-pool evolution loop of med_active_learning: the index-set       *)
(* promotion (utils.postprocess_indices, utils.create_loaders,             *)
(* utils.perform_sampling), the uncertainty sampler                        *)
(* (active_learning/uncertainty_sampling.py) and the cycle controller      *)
(* (code/train.py, main).                                                  *)
(*                                                                         *)
(* Conventions.  A numpy/torch 1-D array is a TLA+ sequence; the Python    *)
(* position p (0-based) of an array a is a[p + 1].  Positions handed       *)
(* between functions (samples_indices) stay 0-based, as in the source.     *)
(* A float is a pair <<n, d>> standing for n/d with d >= 0: d > 0 is a     *)
(* finite number, <<n, 0>> with n > 0 is +inf and <<0, 0>> is NaN.         *)
(* Recalls are counted in tenths (5 is 0.5).                               *)
(***************************************************************************)
EXTENDS Integers, Sequences, FiniteSets, TLC

VARIABLES
    \* ---- controller (code/train.py main) ----
    pc,                 \* position of main: "train", "validate", "decide", "save", "done", "error"
    args,               \* parsed arguments (read-only configuration)
    dataset_class,      \* dataset config: add_labeled_num, unlabeled_subset_num, start_labeled
    epoch,              \* loop variable of main
    labeled_indices,    \* controller's labeled index array
    unlabeled_indices,  \* controller's unlabeled index array
    labeled_dataset,    \* [indices |-> ...] the Subset the train loader reads
    unlabeled_dataset,  \* [indices |-> ...] the Subset the unlabeled loader reads (the window)
    val_recall,         \* val_report['macro avg']['recall'] of the current epoch
    is_best,
    best_recall,
    last_best_epochs,
    current_labeled,
    targets,            \* the shared target list: dataset index -> stored label
    model,              \* identity of the weights main trains: -1 initial, e after training in epoch e, -2 re-created
    best_model,         \* identity of the weights best_model is a copy of
    best_report,        \* Null or the report [epoch, recall] kept as best
    checkpoint_dir,     \* [checkpoint, model_best]: the states stored in the two checkpoint files (Null: no file)
    mode,               \* model.training of the model main holds: "train" or "eval"
    optimizer,          \* [kind, made]: the optimizer main holds, made at startup (-1) or at the end of epoch `made`
    scheduler,          \* [kind, made]: the scheduler main holds
    criterion,          \* the loss function main holds: computed at startup (-1) or at the end of that epoch
    \* ---- observers of the controller ----
    base_union,         \* labeled \cup unlabeled as returned by get_dataset()
    last,               \* what the most recent evaluation of lines 171-177 saw and did
    sampled_epochs,     \* epochs at whose end perform_sampling was called
    fed,                \* number of leading epochs whose recall followed Fixture (-1: departed)
    seen,               \* [max, at]: the largest of 0 and the recalls validated so far, and the first epoch that gave it (-1: none)
    saves,              \* number of save_checkpoint calls so far
    promotion,          \* Null or, until the epoch's checkpoint is saved, the arguments and results of the calls of its sampling step
    \* ---- one call of postprocess_indices ----
    call,               \* [labeled, unlabeled, samples] the arguments
    ret,                \* [labeled, unlabeled] the returned pair, Null before the call
    \* ---- one call of UncertaintySampling.get_samples ----
    sampler,            \* [method, number, probs, feat, feat_train] sampler object and loader contents
    samples,            \* concatenated scores (<<>> before the first batch)
    result              \* Null before the call, then [status |-> "returned", positions] or [status |-> "raised"]

vars == <<pc, args, dataset_class, epoch, labeled_indices, unlabeled_indices,
          labeled_dataset, unlabeled_dataset, val_recall, is_best, best_recall,
          last_best_epochs, current_labeled, targets, model, best_model, best_report,
          checkpoint_dir, mode, optimizer, scheduler, criterion, base_union, last, sampled_epochs, fed, seen, saves, promotion,
          call, ret, sampler, samples, result>>

ctlVars == <<pc, args, dataset_class, epoch, labeled_indices, unlabeled_indices,
             labeled_dataset, unlabeled_dataset, val_recall, is_best, best_recall,
             last_best_epochs, current_labeled, targets, model, best_model, best_report,
             checkpoint_dir, mode, optimizer, scheduler, criterion, base_union, last, sampled_epochs, fed, seen, saves, promotion>>

callVars == <<call, ret>>

samplerVars == <<sampler, samples, result>>

\* Python's None, for the record-valued variables
Null == [none |-> TRUE]

(***************************************************************************)
(* Bounds of the model.                                                    *)
(***************************************************************************)
\* dataset indices are 0 .. NumData - 1
NumData == 7
\* longest samples_indices array handed to postprocess_indices in the call harness
MaxSel == 2
\* longest unlabeled array handed to postprocess_indices in the call harness
MaxUnlabeled == 4
\* largest epoch budget (args.epochs) of a controller run
MaxEpochs == 4
\* most examples the unlabeled loader enumerates in the get_samples harness
MaxExamples == 2
\* longest unlabeled array handed to stratified_random_sampling in the harness
MaxPool == 3
\* largest `number` asked of get_samples in the harness
MaxNumber == 2

(***************************************************************************)
(* Generic array helpers.                                                  *)
(***************************************************************************)
Range(s) == {s[i] : i \in DOMAIN s}

NoDup(s) == \A i, j \in DOMAIN s : i # j => s[i] # s[j]

\* a[:n] for n >= 0
Take(s, n) == IF n >= Len(s) THEN s ELSE SubSeq(s, 1, n)

\* all arrays over S of length lo..hi
SeqsOf(S, lo, hi) == UNION {[1..n -> S] : n \in lo..hi}

\* all arrays over S without repeated entries, of length lo..hi
DistinctSeqsOf(S, lo, hi) == {s \in SeqsOf(S, lo, hi) : NoDup(s)}

\* all orders of the array s (what an in-place shuffle can leave)
Shuffles(s) == {t \in [1..Len(s) -> Range(s)] : \A i \in DOMAIN s : Cardinality({j \in DOMAIN t : t[j] = s[i]}) = Cardinality({j \in DOMAIN s : s[j] = s[i]})}

(***************************************************************************)
(* utils.postprocess_indices                                               *)
(***************************************************************************)
\* unlabeled_mask = ones(len(unlabeled)); unlabeled_mask[samples_indices] = 0
unlabeled_mask(n, samples_indices) == [i \in 1..n |-> ~(\E k \in DOMAIN samples_indices : samples_indices[k] + 1 = i)]

\* a[m] for a boolean mask m (keep = TRUE) or a[~m] (keep = FALSE): entries in array order
RECURSIVE MaskSelect(_, _, _)
MaskSelect(a, m, keep) == IF a = <<>> THEN <<>> ELSE MaskSelect(SubSeq(a, 1, Len(a) - 1), m, keep) \o (IF m[Len(a)] = keep THEN <<a[Len(a)]>> ELSE <<>>)

\* mutant: nothing is promoted
postprocess_indices_noop(labeled, unlabeled, samples_indices) == [labeled |-> labeled, unlabeled |-> unlabeled]

\* mutant: the selected entries stay in the unlabeled array
postprocess_indices_keeps(labeled, unlabeled, samples_indices) ==
    LET m == unlabeled_mask(Len(unlabeled), samples_indices)
    IN  [labeled |-> labeled \o MaskSelect(unlabeled, m, FALSE), unlabeled |-> unlabeled]

\* mutant: the positions themselves are appended instead of the entries found there
postprocess_indices_renumbers(labeled, unlabeled, samples_indices) ==
    LET m == unlabeled_mask(Len(unlabeled), samples_indices)
    IN  [labeled |-> labeled \o MaskSelect([i \in 1..Len(unlabeled) |-> i - 1], m, FALSE), unlabeled |-> MaskSelect(unlabeled, m, TRUE)]

\* mutant: one entry is appended per selected position, repeats included
postprocess_indices_repeats(labeled, unlabeled, samples_indices) ==
    LET m == unlabeled_mask(Len(unlabeled), samples_indices)
    IN  [labeled |-> labeled \o [k \in DOMAIN samples_indices |-> unlabeled[samples_indices[k] + 1]], unlabeled |-> MaskSelect(unlabeled, m, TRUE)]

postprocess_indices(labeled, unlabeled, samples_indices) ==
    LET m == unlabeled_mask(Len(unlabeled), samples_indices)
    IN  [labeled |-> labeled \o MaskSelect(unlabeled, m, FALSE), unlabeled |-> MaskSelect(unlabeled, m, TRUE)]

(***************************************************************************)
(* Floats.  <<n, d>> is n/d, kept in lowest terms with d >= 0; x/0 is      *)
(* +inf or -inf and 0/0 is NaN, as torch computes them.                    *)
(***************************************************************************)
Abs(x) == IF x < 0 THEN -x ELSE x

RECURSIVE Gcd(_, _)
Gcd(a, b) == IF b = 0 THEN a ELSE Gcd(b, a % b)

Sgn(x) == IF x > 0 THEN 1 ELSE IF x < 0 THEN -1 ELSE 0

Flt(n, d) ==
    LET nn == IF d < 0 THEN -n ELSE n
        dd == Abs(d)
        g == Gcd(Abs(nn), dd)
    IN  IF dd = 0 THEN <<Sgn(nn), 0>> ELSE <<nn \div g, dd \div g>>

NaN == <<0, 0>>

IsNaN(a) == a = NaN

FNeg(a) == <<-a[1], a[2]>>

FAdd(a, b) == IF IsNaN(a) \/ IsNaN(b) THEN NaN ELSE IF a[2] = 0 /\ b[2] = 0 THEN (IF a[1] = b[1] THEN a ELSE NaN) ELSE IF a[2] = 0 THEN a ELSE IF b[2] = 0 THEN b ELSE Flt(a[1] * b[2] + b[1] * a[2], a[2] * b[2])

FSub(a, b) == FAdd(a, FNeg(b))

FMul(a, b) == IF IsNaN(a) \/ IsNaN(b) THEN NaN ELSE Flt(a[1] * b[1], a[2] * b[2])

FDiv(a, b) == IF IsNaN(a) \/ IsNaN(b) THEN NaN ELSE Flt(a[1] * b[2], a[2] * b[1])

\* a < b and a == b of IEEE floats: false whenever a NaN is involved
FLess(a, b) == ~IsNaN(a) /\ ~IsNaN(b) /\ (IF a[2] = 0 /\ b[2] = 0 THEN a[1] < b[1] ELSE a[1] * b[2] < b[1] * a[2])

FEq(a, b) == ~IsNaN(a) /\ ~IsNaN(b) /\ a = b

RECURSIVE FSum(_)
FSum(s) == IF s = <<>> THEN <<0, 1>> ELSE FAdd(Head(s), FSum(Tail(s)))

\* elementwise x * y and x / c of rows
RECURSIVE RowMul(_, _)
RowMul(x, y) == IF x = <<>> THEN <<>> ELSE <<FMul(Head(x), Head(y))>> \o RowMul(Tail(x), Tail(y))

RECURSIVE RowDiv(_, _)
RowDiv(x, c) == IF x = <<>> THEN <<>> ELSE <<FDiv(Head(x), c)>> \o RowDiv(Tail(x), c)

\* the order torch.sort / argsort uses: NaN is placed after every number
SortsBefore(a, b) == IsNaN(b) \/ (~IsNaN(a) /\ ~FLess(b, a))

\* all orders of 1..n
Perms(n) == {f \in [1..n -> 1..n] : \A i, j \in 1..n : i # j => f[i] # f[j]}

\* torch.sort(row)[0]: the row in ascending order
RECURSIVE Insert(_, _)
Insert(s, x) == IF s = <<>> THEN <<x>> ELSE IF SortsBefore(x, Head(s)) THEN <<x>> \o s ELSE <<Head(s)>> \o Insert(Tail(s), x)

RECURSIVE SortRow(_)
SortRow(row) == IF row = <<>> THEN <<>> ELSE Insert(SortRow(Tail(row)), Head(row))

\* torch.log on the probabilities k/6 the model uses, in thousandths; log(0) = -inf
Log(p) ==
    CASE p = <<0, 1>> -> <<-1, 0>>
      [] p = <<1, 6>> -> Flt(-1792, 1000)
      [] p = <<1, 3>> -> Flt(-1099, 1000)
      [] p = <<1, 2>> -> Flt(-693, 1000)
      [] p = <<2, 3>> -> Flt(-405, 1000)
      [] p = <<5, 6>> -> Flt(-182, 1000)
      [] p = <<1, 1>> -> <<0, 1>>

\* x.norm() of a feature row; the rows used have integer norms
Sqrt(sq) == CHOOSE r \in {<<m, 1>> : m \in 0..sq[1]} : FMul(r, r) = sq

Norm(x) == Sqrt(FSum(RowMul(x, x)))

(***************************************************************************)
(* UncertaintySampling: the scoring methods, on one row of probabilities.  *)
(***************************************************************************)
\* torch.max(probs, dim=1)[0]
RowMax(probs) == SortRow(probs)[Len(probs)]

least_confidence(probs, feat, feat_train) == RowMax(probs)

margin_confidence(probs, feat, feat_train) == LET sorted == SortRow(probs) IN FSub(sorted[Len(sorted)], sorted[Len(sorted) - 1])

\* mutant: second-largest over largest
ratio_confidence_inverted(probs, feat, feat_train) == LET sorted == SortRow(probs) IN FDiv(sorted[Len(sorted) - 1], sorted[Len(sorted)])

ratio_confidence(probs, feat, feat_train) == LET sorted == SortRow(probs) IN FDiv(sorted[Len(sorted)], sorted[Len(sorted) - 1])

\* -probs * torch.log(probs), elementwise
RECURSIVE NegPLogP(_)
NegPLogP(probs) == IF probs = <<>> THEN <<>> ELSE <<FMul(FNeg(Head(probs)), Log(Head(probs)))>> \o NegPLogP(Tail(probs))

entropy_based(probs, feat, feat_train) == FSum(NegPLogP(probs))

\* feat / feat.norm(dim=1)[:, None]
Normalized(x) == RowDiv(x, Norm(x))

\* one entry of torch.mm(a, b.transpose(0, 1)): the dot product of a row of a and a row of b
Dot(x, y) == FSum(RowMul(x, y))

\* one row of torch.mm(feat_norm, feat_train_norm.transpose(0, 1)), feat_norm being one normalized row
RECURSIVE MmRow(_, _)
MmRow(feat_norm, feat_train) == IF feat_train = <<>> THEN <<>> ELSE <<Dot(feat_norm, Normalized(Head(feat_train)))>> \o MmRow(feat_norm, Tail(feat_train))

similarities(feat, feat_train) == MmRow(Normalized(feat), feat_train)

\* torch.mean(similarities, dim=1)
Mean(row) == FDiv(FSum(row), <<Len(row), 1>>)

\* mutant: the "+1" is lost
density_weighted_noshift(probs, feat, feat_train) == FMul(RowMax(probs), FNeg(Mean(similarities(feat, feat_train))))

density_weighted(probs, feat, feat_train) == FMul(RowMax(probs), FAdd(FNeg(Mean(similarities(feat, feat_train))), <<1, 1>>))

\* self.method = getattr(self, self.uncertainty_sampling_method), applied to one row
Method(name, probs, feat, feat_train) ==
    CASE name = "least_confidence" -> least_confidence(probs, feat, feat_train)
      [] name = "margin_confidence" -> margin_confidence(probs, feat, feat_train)
      [] name = "ratio_confidence" -> ratio_confidence(probs, feat, feat_train)
      [] name = "entropy_based" -> entropy_based(probs, feat, feat_train)
      [] name = "density_weighted" -> density_weighted(probs, feat, feat_train)

Methods == {"least_confidence", "margin_confidence", "ratio_confidence", "entropy_based", "density_weighted"}

\* mutant: the entropy branch is lost
Descending_never(name) == FALSE

\* if self.uncertainty_sampling_method == 'entropy_based': argsort(descending=True)
Descending(name) == name = "entropy_based"

\* samples.argsort(descending=...): torch's sort is not stable, so every order that
\* respects the scores is a possible outcome
Argsort(s, descending) == {f \in Perms(Len(s)) : \A i \in 1..(Len(s) - 1) : IF descending THEN SortsBefore(s[f[i + 1]], s[f[i]]) ELSE SortsBefore(s[f[i]], s[f[i + 1]])}

\* mutant: the slice is lost
Sliced_all(order, number) == [i \in DOMAIN order |-> order[i] - 1]

\* order[:number], as 0-based positions
Sliced(order, number) == [i \in DOMAIN Take(order, number) |-> order[i] - 1]

\* lines 90-93: the position arrays get_samples can return for the scores s (s not empty)
get_samples_return(name, s, number) == {Sliced(order, number) : order \in Argsort(s, Descending(name))}

(***************************************************************************)
(* Idle values of the parts a specification does not exercise.             *)
(***************************************************************************)
CtlIdle ==
    /\ pc = "idle" /\ args = Null /\ dataset_class = Null /\ epoch = 0
    /\ labeled_indices = <<>> /\ unlabeled_indices = <<>>
    /\ labeled_dataset = Null /\ unlabeled_dataset = Null
    /\ val_recall = -1 /\ is_best = FALSE /\ best_recall = 0
    /\ last_best_epochs = 0 /\ current_labeled = 0
    /\ base_union = {} /\ last = Null /\ sampled_epochs = {} /\ fed = 0
    /\ targets = <<>> /\ model = -1 /\ best_model = -1 /\ best_report = Null
    /\ checkpoint_dir = Null /\ seen = Null /\ promotion = Null
    /\ mode = "train" /\ optimizer = Null /\ scheduler = Null /\ criterion = -1 /\ saves = 0

CallIdle == call = Null /\ ret = Null

SamplerIdle == sampler = Null /\ samples = <<>> /\ result = Null

(***************************************************************************)
(* One call of postprocess_indices on arbitrary disjoint index arrays.     *)
(* The labeled array is 0..a-1 (its entries are only carried along), the   *)
(* unlabeled array any duplicate-free array over the other indices, and    *)
(* samples_indices any array of in-range positions, repeats included.      *)
(***************************************************************************)
InitPromote ==
    /\ CtlIdle /\ SamplerIdle
    /\ ret = Null
    /\ \E a \in {2, 3} : \E u \in DistinctSeqsOf(a..(NumData - 1), 0, MaxUnlabeled) : \E sel \in SeqsOf(0..(Len(u) - 1), 0, MaxSel) :
            call = [labeled |-> [i \in 1..a |-> i - 1], unlabeled |-> u, samples |-> sel]

Promote ==
    /\ call # Null /\ ret = Null
    /\ ret' = postprocess_indices(call.labeled, call.unlabeled, call.samples)
    /\ UNCHANGED <<call, ctlVars, samplerVars>>

NextPromote == Promote

SpecPromote == InitPromote /\ [][NextPromote]_vars

(***************************************************************************)
(* One call of UncertaintySampling.get_samples.  The model's outputs on    *)
(* the unlabeled loader are arbitrary rows of softmax probabilities (in    *)
(* sixths; a 0 is an underflowed softmax) and feature rows; feat_train is  *)
(* the feature bank gathered by the pass over the train loader.            *)
(***************************************************************************)
Prob(a, b, c) == <<Flt(a, 6), Flt(b, 6), Flt(c, 6)>>

ProbVecs == {Prob(2, 2, 2), Prob(4, 1, 1), Prob(1, 4, 1), Prob(1, 2, 3), Prob(6, 0, 0), Prob(3, 3, 0)}

Feat(x, y) == <<Flt(x, 1), Flt(y, 1)>>

Feats == {Feat(1, 0), Feat(3, 4), Feat(0, 0)}

FeatBanks == {<<Feat(0, 1), Feat(0, 1)>>, <<Feat(1, 0), Feat(3, 4)>>, <<Feat(1, 0), Feat(-1, 0)>>}

InitSampler ==
    /\ CtlIdle /\ CallIdle
    /\ samples = <<>> /\ result = Null
    /\ \E method \in Methods, number \in 0..MaxNumber, batch_size \in {1, 2}, n \in 0..MaxExamples :
         \E probs \in [1..n -> IF method = "density_weighted" THEN {Prob(2, 2, 2), Prob(1, 4, 1), Prob(6, 0, 0)} ELSE ProbVecs] :
         \E feat \in [1..n -> IF method = "density_weighted" THEN Feats ELSE {Feat(1, 0)}] :
         \E feat_train \in (IF method = "density_weighted" THEN FeatBanks ELSE {<<Feat(1, 0)>>}) :
            sampler = [method |-> method, number |-> number, batch_size |-> batch_size, probs |-> probs, feat |-> feat, feat_train |-> feat_train]

\* one turn of the loop over unlabeled_loader (lines 72-79): score a batch, concatenate
ScoreBatch ==
    /\ sampler # Null /\ result = Null
    /\ Len(samples) < Len(sampler.probs)
    /\ LET first == Len(samples) + 1
           lst == IF Len(samples) + sampler.batch_size > Len(sampler.probs) THEN Len(sampler.probs) ELSE Len(samples) + sampler.batch_size
           score == [i \in 1..(lst - first + 1) |-> Method(sampler.method, sampler.probs[first + i - 1], sampler.feat[first + i - 1], sampler.feat_train)]
       IN  samples' = samples \o score
    /\ UNCHANGED <<sampler, result, ctlVars, callVars>>

\* lines 90-93 after a pass that scored at least one batch
ReturnSamples ==
    /\ sampler # Null /\ result = Null
    /\ Len(samples) = Len(sampler.probs) /\ Len(samples) > 0
    /\ \E positions \in get_samples_return(sampler.method, samples, sampler.number) :
            result' = [status |-> "returned", positions |-> positions]
    /\ UNCHANGED <<sampler, samples, ctlVars, callVars>>

\* lines 90-93 after an empty pass: samples is still None and None.argsort raises
RaiseOnEmpty ==
    /\ sampler # Null /\ result = Null
    /\ Len(sampler.probs) = 0
    /\ result' = [status |-> "raised"]
    /\ UNCHANGED <<sampler, samples, ctlVars, callVars>>

NextSampler == ScoreBatch \/ ReturnSamples \/ RaiseOnEmpty

SpecSampler == InitSampler /\ [][NextSampler]_vars

(***************************************************************************)
(* Construction of the sampler and its first scoring call.  call is        *)
(* [uncertainty_sampling_method, verbose, probs]: the constructor's         *)
(* arguments and the first softmax row the unlabeled loader gives.         *)
(***************************************************************************)
\* names a configuration can hand to the constructor
MethodNames == Methods \cup {"get_samples", "__init__", "uncertainty_sampling_method", "verbose", "method", "random_sampling", "mc_dropout", "Least_Confidence"}

\* line 15, getattr(self, name): what the name resolves to on the object as it is
\* after line 14 (uncertainty_sampling_method is set, verbose and method are not)
getattr_self(name) ==
    CASE name \in Methods -> [kind |-> "scoring", name |-> name]
      [] name \in {"get_samples", "__init__"} -> [kind |-> "bound_method", name |-> name]
      [] name = "uncertainty_sampling_method" -> [kind |-> "str", name |-> name]
      [] OTHER -> [kind |-> "AttributeError", name |-> name]

InitConstruct ==
    /\ CtlIdle
    /\ ret = Null /\ sampler = Null /\ samples = <<>> /\ result = Null
    /\ \E name \in MethodNames, verbose \in BOOLEAN, probs \in ProbVecs :
            call = [uncertainty_sampling_method |-> name, verbose |-> verbose, probs |-> probs]

\* lines 13-16: the constructor returns an object
Construct ==
    /\ sampler = Null /\ result = Null
    /\ getattr_self(call.uncertainty_sampling_method).kind # "AttributeError"
    /\ sampler' = [uncertainty_sampling_method |-> call.uncertainty_sampling_method,
                   method |-> getattr_self(call.uncertainty_sampling_method), verbose |-> call.verbose]
    /\ UNCHANGED <<samples, result, ctlVars, callVars>>

\* lines 13-15: getattr raises AttributeError, no object is made
ConstructRaises ==
    /\ sampler = Null /\ result = Null
    /\ getattr_self(call.uncertainty_sampling_method).kind = "AttributeError"
    /\ result' = [status |-> "raised", at |-> "construction"]
    /\ UNCHANGED <<sampler, samples, ctlVars, callVars>>

\* line 78, self.method(probs, feat, feat_train) on the first unlabeled batch
FirstScore ==
    /\ sampler # Null /\ result = Null
    /\ sampler.method.kind = "scoring"
    /\ samples' = <<Method(sampler.method.name, call.probs, Feat(1, 0), <<Feat(1, 0)>>)>>
    /\ result' = [status |-> "scored", at |-> "sampling"]
    /\ UNCHANGED <<sampler, ctlVars, callVars>>

\* line 78 when self.method is not a scoring method: the call raises TypeError
\* (wrong number of arguments, or a str is not callable)
FirstScoreRaises ==
    /\ sampler # Null /\ result = Null
    /\ sampler.method.kind # "scoring"
    /\ result' = [status |-> "raised", at |-> "sampling"]
    /\ UNCHANGED <<sampler, samples, ctlVars, callVars>>

NextConstruct == Construct \/ ConstructRaises \/ FirstScore \/ FirstScoreRaises

SpecConstruct == InitConstruct /\ [][NextConstruct]_vars

(***************************************************************************)
(* One call of utils.resume_model.  call is [file, start_epoch, model,     *)
(* optimizer, scheduler]: the content of model_best.pth.tar (Null when the *)
(* file does not exist), args.start_epoch and the three arguments; ret is  *)
(* the outcome with args.start_epoch as the call leaves it.                *)
(***************************************************************************)
\* what model_best.pth.tar can hold: save_checkpoint of main stores no optimizer
\* and no scheduler state, other writers may
CheckpointFiles == {[epoch |-> e, state_dict |-> w, optimizer |-> o, scheduler |-> o] : e \in 1..MaxEpochs, w \in {0, 1}, o \in BOOLEAN}

Optimizers == {Null, [kind |-> "adam", state |-> "fresh"]}

Schedulers == {Null, [kind |-> "steplr", state |-> "fresh"]}

\* mutant: a missing checkpoint file is an error
resume_model_strict(start_epoch, file, m, optim, sched) == [status |-> "raised", start_epoch |-> start_epoch]

\* lines 383-399
resume_model(start_epoch, file, m, optim, sched) ==
    IF file = Null
    THEN [status |-> "returned", start_epoch |-> start_epoch, model |-> m, optimizer |-> optim, scheduler |-> sched]
    ELSE IF (optim # Null /\ ~file.optimizer) \/ (sched # Null /\ ~file.scheduler)
         THEN [status |-> "raised", start_epoch |-> file.epoch]
         ELSE [status |-> "returned", start_epoch |-> file.epoch, model |-> file.state_dict,
               optimizer |-> IF optim = Null THEN Null ELSE [kind |-> optim.kind, state |-> "loaded"],
               scheduler |-> IF sched = Null THEN Null ELSE [kind |-> sched.kind, state |-> "loaded"]]

InitResume ==
    /\ CtlIdle /\ SamplerIdle
    /\ ret = Null
    /\ \E file \in {Null} \cup CheckpointFiles, start_epoch \in {0, 1}, optim \in Optimizers, sched \in Schedulers :
            call = [file |-> file, start_epoch |-> start_epoch, model |-> -1, optimizer |-> optim, scheduler |-> sched]

Resume ==
    /\ call # Null /\ ret = Null
    /\ ret' = resume_model(call.start_epoch, call.file, call.model, call.optimizer, call.scheduler)
    /\ UNCHANGED <<call, ctlVars, samplerVars>>

NextResume == Resume

SpecResume == InitResume /\ [][NextResume]_vars

(***************************************************************************)
(* The cycle controller: main (code/train.py) with utils.create_loaders    *)
(* and utils.perform_sampling.  main hands its own state to                *)
(* perform_sampling; the parameters are bound by name (the call in main    *)
(* names no pseudo_labeler and no best_model; the semi_supervised branch   *)
(* takes them from its caller).                                            *)
(***************************************************************************)
\* validation recalls, in tenths
RecallVals == {0, 5, 6}

\* the recalls of the spec's controller fixture (0.5, 0.6, 0.6), continued with 0.6
Fixture == <<5, 6, 6, 6>>

\* scores the model can give the examples of the window in a controller run
CtlScores == {Flt(1, 2), Flt(1, 1)}

Strategies == {"active_learning", "semi_supervised", "random_sampling"}

\* the arguments main reads, as argparse leaves them (any int is accepted)
ArgsChoices ==
    {[weak_supervision_strategy |-> st, uncertainty_sampling_method |-> m, labeled_warmup_epochs |-> w,
      add_labeled_epochs |-> pt, start_epoch |-> 0, epochs |-> ep, add_labeled |-> ad, stop_labeled |-> sp,
      reset_model |-> rm, resume |-> rs] :
        st \in Strategies, m \in {"least_confidence"}, w \in {0, 2}, pt \in {-1, 0, 1},
        ep \in {MaxEpochs}, ad \in {1, 2}, sp \in {1, 3}, rm \in BOOLEAN, rs \in BOOLEAN}

\* dataset_class: what the dataset config and get_dataset() supply
DatasetChoices ==
    {[add_labeled_num |-> an, unlabeled_subset_num |-> sn, start_labeled |-> 2, labeled_indices |-> <<0, 1>>, unlabeled_indices |-> <<2, 3, 4>>] :
        an \in {1, 3}, sn \in {2, 3}}

\* the target list get_dataset() leaves: the true label of dataset index i at position i
TrueTargets == <<0, 1, 0, 1, 0>>

\* args.resume is read again only when the model is re-created (utils.py 279-283):
\* the runs with --resume are those that re-create the model, without warmup
ResumeExplored(a) == a.reset_model /\ a.labeled_warmup_epochs = 0 /\ a.add_labeled_epochs = 0

\* main lines 57-165 for arguments and a dataset drawn from the given sets
InitFrom(argsChoices, datasetChoices) ==
    /\ CallIdle /\ SamplerIdle
    /\ args \in argsChoices
    /\ dataset_class \in datasetChoices
    /\ pc = "start"
    /\ epoch = args.start_epoch
    /\ labeled_indices = dataset_class.labeled_indices
    /\ unlabeled_indices = dataset_class.unlabeled_indices
    /\ labeled_dataset = Null /\ unlabeled_dataset = Null
    /\ val_recall = -1 /\ is_best = FALSE
    /\ best_recall = 0 /\ last_best_epochs = 0
    /\ current_labeled = dataset_class.start_labeled
    /\ base_union = Range(dataset_class.labeled_indices) \cup Range(dataset_class.unlabeled_indices)
    /\ last = Null /\ sampled_epochs = {} /\ fed = 0
    /\ targets = TrueTargets
    /\ model = -1 /\ best_model = -1 /\ best_report = Null
    /\ checkpoint_dir = [checkpoint |-> Null, model_best |-> Null]
    /\ mode = "train"
    /\ optimizer = [kind |-> "adam", made |-> -1] /\ scheduler = [kind |-> "steplr", made |-> -1]
    /\ criterion = -1 /\ saves = 0
    /\ seen = [max |-> 0, at |-> -1] /\ promotion = Null

Init ==
    InitFrom({a \in ArgsChoices :
                 /\ a.weak_supervision_strategy # "active_learning" => a.uncertainty_sampling_method = "least_confidence"
                 /\ a.resume => ResumeExplored(a)}, DatasetChoices)

\* mutant: the window is sliced before the unlabeled array is shuffled
create_loaders_window_first(labeled, unlabeled, unlabeled_subset_num) ==
    {[labeled_indices |-> labeled, unlabeled_indices |-> shuffled,
      labeled_dataset |-> [indices |-> labeled],
      unlabeled_dataset |-> [indices |-> Take(unlabeled, unlabeled_subset_num)]] : shuffled \in Shuffles(unlabeled)}

\* mutant: the window is the whole unlabeled array
create_loaders_fullwindow(labeled, unlabeled, unlabeled_subset_num) ==
    {[labeled_indices |-> labeled, unlabeled_indices |-> shuffled,
      labeled_dataset |-> [indices |-> labeled],
      unlabeled_dataset |-> [indices |-> shuffled]] : shuffled \in Shuffles(unlabeled)}

\* mutant: the unlabeled array is cut down to the window
create_loaders_truncates(labeled, unlabeled, unlabeled_subset_num) ==
    {[labeled_indices |-> labeled, unlabeled_indices |-> Take(shuffled, unlabeled_subset_num),
      labeled_dataset |-> [indices |-> labeled],
      unlabeled_dataset |-> [indices |-> Take(shuffled, unlabeled_subset_num)]] : shuffled \in Shuffles(unlabeled)}

\* utils.create_loaders: the arrays and Subset index lists it can leave
\* (random.shuffle reorders unlabeled_indices in place)
create_loaders(labeled, unlabeled, unlabeled_subset_num) ==
    {[labeled_indices |-> labeled, unlabeled_indices |-> shuffled,
      labeled_dataset |-> [indices |-> labeled],
      unlabeled_dataset |-> [indices |-> Take(shuffled, unlabeled_subset_num)]] : shuffled \in Shuffles(unlabeled)}

\* main lines 137-165: loaders, counters
Startup ==
    /\ pc = "start"
    /\ \E l \in create_loaders(labeled_indices, unlabeled_indices, dataset_class.unlabeled_subset_num) :
         /\ labeled_indices' = l.labeled_indices
         /\ unlabeled_indices' = l.unlabeled_indices
         /\ labeled_dataset' = l.labeled_dataset
         /\ unlabeled_dataset' = l.unlabeled_dataset
    /\ pc' = IF args.start_epoch < args.epochs THEN "train" ELSE "done"
    /\ UNCHANGED <<args, dataset_class, epoch, val_recall, is_best, best_recall, last_best_epochs, current_labeled, base_union, last, sampled_epochs, fed, callVars, samplerVars>>
    /\ UNCHANGED <<targets, model, best_model, best_report, checkpoint_dir, mode, optimizer, scheduler, criterion, seen, saves, promotion>>

\* mutant: train() leaves the model in the mode it finds it in
model_train_keeps(m) == m

\* model.train() (train(), line 226)
model_train(m) == "train"

\* model.eval() (validate(), line 271; get_samples, line 62)
model_eval(m) == "eval"

\* line 168: one pass over the labeled loader, stepping the optimizer on the model
Train ==
    /\ pc = "train"
    /\ pc' = "validate"
    /\ model' = epoch
    /\ mode' = model_train(mode)
    /\ UNCHANGED <<args, dataset_class, epoch, labeled_indices, unlabeled_indices, labeled_dataset, unlabeled_dataset, val_recall, is_best, best_recall, last_best_epochs, current_labeled, base_union, last, sampled_epochs, fed, callVars, samplerVars>>
    /\ UNCHANGED <<targets, best_model, best_report, checkpoint_dir, optimizer, scheduler, criterion, seen, saves, promotion>>

\* line 169: one pass over the validation loader, giving the macro recall
Validate ==
    /\ pc = "validate"
    /\ \E r \in RecallVals :
         /\ val_recall' = r
         /\ fed' = IF fed = epoch /\ epoch < Len(Fixture) /\ r = Fixture[epoch + 1] THEN epoch + 1 ELSE -1
         /\ seen' = IF r > seen.max THEN [max |-> r, at |-> epoch] ELSE seen
    /\ mode' = model_eval(mode)
    /\ pc' = "decide"
    /\ UNCHANGED <<args, dataset_class, epoch, labeled_indices, unlabeled_indices, labeled_dataset, unlabeled_dataset, is_best, best_recall, last_best_epochs, current_labeled, base_union, last, sampled_epochs, callVars, samplerVars>>
    /\ UNCHANGED <<targets, model, best_model, best_report, checkpoint_dir, optimizer, scheduler, criterion, saves, promotion>>

\* mutant: a recall equal to the best one counts as a new best
IsBest_atleast == val_recall >= best_recall

\* line 171
IsBest == val_recall > best_recall

\* line 172
Counter == IF IsBest THEN 0 ELSE last_best_epochs + 1

\* mutant: sampling is never due
SamplingDue_never(e, counter) == FALSE

\* mutant: the warmup threshold is ignored
SamplingDue_nowarmup(e, counter) == counter > args.add_labeled_epochs

\* mutant: both tests admit equality
SamplingDue_atleast(e, counter) == e >= args.labeled_warmup_epochs /\ counter >= args.add_labeled_epochs

\* line 177
SamplingDue(e, counter) == e > args.labeled_warmup_epochs /\ counter > args.add_labeled_epochs

\* line 169: the report validate() returned for this epoch
val_report == [epoch |-> epoch, recall |-> val_recall]

\* what this evaluation of lines 171-177 saw and did
Observed(sampled) == [epoch |-> epoch, recall |-> val_recall, best_before |-> best_recall, counter_before |-> last_best_epochs, counter |-> Counter, sampled |-> sampled]

\* the window the unlabeled loader enumerates
Window == unlabeled_dataset.indices

\* uncertainty_sampler.get_samples on the window: the model's scores are arbitrary
ActiveSamples == UNION {get_samples_return(args.uncertainty_sampling_method, s, dataset_class.add_labeled_num) : s \in [1..Len(Window) -> CtlScores]}

\* pseudo_labeler.get_samples on the window: positions of the `number` most confident examples
PseudoSamples == LET k == IF dataset_class.add_labeled_num < Len(Window) THEN dataset_class.add_labeled_num ELSE Len(Window) IN DistinctSeqsOf(0..(Len(Window) - 1), k, k)

\* rng.choice raises ValueError when asked for more positions than there are
ChoiceRaises(unlabeled, number) == number > Len(unlabeled)

\* mutant: the positions are drawn with replacement
stratified_random_sampling_replace(unlabeled, number) == SeqsOf(0..(Len(unlabeled) - 1), number, number)

\* utils.stratified_random_sampling: rng.choice(n, size=number, replace=False) on a
\* generator default_rng() builds from fresh operating-system entropy: any
\* duplicate-free array of `number` positions can come back
stratified_random_sampling(unlabeled, number) == DistinctSeqsOf(0..(Len(unlabeled) - 1), number, number)

\* whether the sampling call of perform_sampling raises: None.argsort() after an empty
\* unlabeled pass, or rng.choice asked for more positions than there are
SamplingRaises ==
    CASE args.weak_supervision_strategy = "active_learning" -> Len(Window) = 0
      [] args.weak_supervision_strategy = "semi_supervised" -> FALSE
      [] OTHER -> ChoiceRaises(unlabeled_indices, dataset_class.add_labeled_num)

\* the class the model of a controller run predicts for the example at each dataset index
\* (it agrees with the true label at indices 1 and 2 and differs at 0, 3 and 4)
Predicted == <<1, 1, 0, 0, 1>>

\* pseudo_labeler.get_samples: the class the model predicts for each returned position
PseudoTargets(samples_indices) == {[i \in DOMAIN samples_indices |-> Predicted[Window[samples_indices[i] + 1] + 1]]}

\* lines 441-446: the agreement flags and the overwritten target list; the loop
\* reads and writes labeled_dataset.targets[j] with j the returned position
RECURSIVE pseudo_label_loop(_, _, _, _)
pseudo_label_loop(tg, samples_indices, samples_targets, acc) ==
    IF samples_indices = <<>> THEN [targets |-> tg, pseudo_labels_acc |-> acc]
    ELSE LET j == Head(samples_indices)
             t == Head(samples_targets)
         IN  IF tg[j + 1] = t
             THEN pseudo_label_loop(tg, Tail(samples_indices), Tail(samples_targets), Append(acc, 1))
             ELSE pseudo_label_loop([tg EXCEPT ![j + 1] = t], Tail(samples_indices), Tail(samples_targets), Append(acc, 0))

\* the other two branches leave the target list alone
NoLabelling == [targets |-> targets, pseudo_labels_acc |-> <<>>]

\* mutant: only the positions whose pseudo-label disagrees with the stored label are promoted
PseudoPromoted_disagreeing(samples_indices, pseudo_labels_acc) == SelectSeq([i \in DOMAIN samples_indices |-> <<samples_indices[i], pseudo_labels_acc[i]>>], LAMBDA x : x[2] = 0)

\* lines 438-439: the positions the semi_supervised branch hands to postprocess_indices
PseudoPromoted(samples_indices, pseudo_labels_acc) == [i \in DOMAIN samples_indices |-> <<samples_indices[i], pseudo_labels_acc[i]>>]

\* utils.create_model_optimizer_scheduler as main calls it: a new model, optimizer
\* and scheduler (made names the epoch of the call), and with args.resume the
\* weights and epoch resume_model finds in model_best.pth.tar
create_model_optimizer_scheduler(start_epoch, file, made) ==
    LET new == [model |-> -2, optimizer |-> [kind |-> "adam", made |-> made], scheduler |-> [kind |-> "steplr", made |-> made]]
        resumed == resume_model(start_epoch, file, new.model, Null, Null)
    IN  IF args.resume
        THEN [model |-> resumed.model, optimizer |-> new.optimizer, scheduler |-> new.scheduler, start_epoch |-> resumed.start_epoch]
        ELSE [model |-> new.model, optimizer |-> new.optimizer, scheduler |-> new.scheduler, start_epoch |-> start_epoch]

\* mutant: each sampling event counts twice
AddLabeled_twice(labeled) == labeled + 2 * args.add_labeled

\* line 184
AddLabeled(labeled) == labeled + args.add_labeled

\* mutant: the stagnation counter is left as it is
ResetCounter_keeps(counter) == counter

\* line 186
ResetCounter(counter) == 0

\* lines 422-428 / 438-451 / 461-467 and main lines 184-197: promote, rebuild the
\* loaders, advance the counter, restart the stagnation counter, re-create the
\* model, optimizer and scheduler if args.reset_model, recompute the loss function
PromoteAndRebuild(samples_indices, samples_targets, labelling, scored) ==
    /\ LET p == postprocess_indices(labeled_indices, unlabeled_indices, samples_indices)
       IN  /\ \E l \in create_loaders(p.labeled, p.unlabeled, dataset_class.unlabeled_subset_num) :
                /\ labeled_indices' = l.labeled_indices
                /\ unlabeled_indices' = l.unlabeled_indices
                /\ labeled_dataset' = l.labeled_dataset
                /\ unlabeled_dataset' = l.unlabeled_dataset
           /\ promotion' = [epoch |-> epoch, samples_indices |-> samples_indices, samples_targets |-> samples_targets,
                            pseudo_labels_acc |-> labelling.pseudo_labels_acc,
                            labeled_before |-> labeled_indices, unlabeled_before |-> unlabeled_indices,
                            window_before |-> Window, targets_before |-> targets, scored |-> scored,
                            labeled_promoted |-> p.labeled, unlabeled_promoted |-> p.unlabeled]
    /\ targets' = labelling.targets
    /\ IF args.reset_model
       THEN LET made == create_model_optimizer_scheduler(args.start_epoch, checkpoint_dir.model_best, epoch)
            IN  /\ model' = made.model /\ optimizer' = made.optimizer /\ scheduler' = made.scheduler
                /\ mode' = "train"
                /\ args' = [args EXCEPT !.start_epoch = made.start_epoch]
       ELSE /\ mode' = IF scored = "none" THEN mode ELSE scored
            /\ UNCHANGED <<model, optimizer, scheduler, args>>
    /\ criterion' = epoch
    /\ UNCHANGED <<best_model, best_report, checkpoint_dir, seen, saves>>
    /\ is_best' = IsBest
    /\ current_labeled' = AddLabeled(current_labeled)
    /\ last_best_epochs' = ResetCounter(Counter)
    /\ last' = Observed(TRUE)
    /\ sampled_epochs' = sampled_epochs \cup {epoch}
    /\ pc' = "save"
    /\ UNCHANGED <<dataset_class, epoch, val_recall, best_recall, base_union, fed, callVars, samplerVars>>

\* lines 171-186 with perform_sampling's active_learning branch
SampleActiveLearning ==
    /\ pc = "decide" /\ SamplingDue(epoch, Counter)
    /\ args.weak_supervision_strategy = "active_learning" /\ ~SamplingRaises
    /\ \E samples_indices \in ActiveSamples : PromoteAndRebuild(samples_indices, <<>>, NoLabelling, model_eval(mode))

\* lines 171-186 with perform_sampling's semi_supervised branch
SamplePseudoLabeling ==
    /\ pc = "decide" /\ SamplingDue(epoch, Counter)
    /\ args.weak_supervision_strategy = "semi_supervised" /\ ~SamplingRaises
    /\ \E samples_indices \in PseudoSamples : \E samples_targets \in PseudoTargets(samples_indices) :
         LET labelling == pseudo_label_loop(targets, samples_indices, samples_targets, <<>>)
             promoted == PseudoPromoted(samples_indices, labelling.pseudo_labels_acc)
         IN  PromoteAndRebuild([i \in DOMAIN promoted |-> promoted[i][1]], samples_targets, labelling, "none")

\* lines 171-186 with perform_sampling's else branch (random sampling)
SampleRandom ==
    /\ pc = "decide" /\ SamplingDue(epoch, Counter)
    /\ args.weak_supervision_strategy = "random_sampling" /\ ~SamplingRaises
    /\ \E samples_indices \in stratified_random_sampling(unlabeled_indices, dataset_class.add_labeled_num) : PromoteAndRebuild(samples_indices, <<>>, NoLabelling, "none")

\* lines 171-181 when the sampling call raises: main ends with the exception
SampleFails ==
    /\ pc = "decide" /\ SamplingDue(epoch, Counter)
    /\ SamplingRaises
    /\ is_best' = IsBest
    /\ last_best_epochs' = Counter
    /\ last' = Observed(TRUE)
    /\ sampled_epochs' = sampled_epochs \cup {epoch}
    /\ pc' = "error"
    /\ UNCHANGED <<args, dataset_class, epoch, labeled_indices, unlabeled_indices, labeled_dataset, unlabeled_dataset, val_recall, best_recall, current_labeled, base_union, fed, callVars, samplerVars>>
    /\ mode' = IF args.weak_supervision_strategy = "active_learning" THEN model_eval(mode) ELSE mode
    /\ UNCHANGED <<targets, model, best_model, best_report, checkpoint_dir, optimizer, scheduler, criterion, seen, saves, promotion>>

\* lines 171-177 and 198-201: no sampling, the best recall, report and model are brought up to date
NoSampling ==
    /\ pc = "decide" /\ ~SamplingDue(epoch, Counter)
    /\ is_best' = IsBest
    /\ last_best_epochs' = Counter
    /\ best_recall' = IF IsBest THEN val_recall ELSE best_recall
    /\ best_report' = IF IsBest THEN val_report ELSE best_report
    /\ best_model' = IF IsBest THEN model ELSE best_model
    /\ UNCHANGED <<targets, model, checkpoint_dir, mode, optimizer, scheduler, criterion, seen, saves, promotion>>
    /\ last' = Observed(FALSE)
    /\ pc' = "save"
    /\ UNCHANGED <<args, dataset_class, epoch, labeled_indices, unlabeled_indices, labeled_dataset, unlabeled_dataset, val_recall, current_labeled, base_union, sampled_epochs, fed, callVars, samplerVars>>

\* mutant: the loop stops one batch late
StopTest_late(labeled) == labeled > args.stop_labeled + args.add_labeled

\* mutant: the loop also stops when the counter equals the threshold
StopTest_atleast(labeled) == labeled >= args.stop_labeled

\* line 209
StopTest(labeled) == labeled > args.stop_labeled

\* utils.save_checkpoint: the state goes to checkpoint.pth.tar, and is copied to
\* model_best.pth.tar when is_best
save_checkpoint(dir, state, best) == [checkpoint |-> state, model_best |-> IF best THEN state ELSE dir.model_best]

\* mutant: the finished epoch's own index is stored
CheckpointState_unshifted == [epoch |-> epoch, state_dict |-> best_model, best_recall |-> best_recall]

\* lines 203-207: the dictionary main hands to save_checkpoint
CheckpointState == [epoch |-> epoch + 1, state_dict |-> best_model, best_recall |-> best_recall]

\* lines 203-210 and the loop header: save the checkpoint, break or go to the next epoch
SaveAndLoop ==
    /\ pc = "save"
    /\ checkpoint_dir' = save_checkpoint(checkpoint_dir, CheckpointState, is_best)
    /\ promotion' = Null
    /\ saves' = saves + 1
    /\ UNCHANGED <<targets, model, best_model, best_report, mode, optimizer, scheduler, criterion, seen>>
    /\ IF StopTest(current_labeled) \/ epoch + 1 >= args.epochs
       THEN pc' = "done" /\ epoch' = epoch
       ELSE pc' = "train" /\ epoch' = epoch + 1
    /\ UNCHANGED <<args, dataset_class, labeled_indices, unlabeled_indices, labeled_dataset, unlabeled_dataset, val_recall, is_best, best_recall, last_best_epochs, current_labeled, base_union, last, sampled_epochs, fed, callVars, samplerVars>>

Next == Startup \/ Train \/ Validate \/ SampleActiveLearning \/ SamplePseudoLabeling \/ SampleRandom \/ SampleFails \/ NoSampling \/ SaveAndLoop

Spec == Init /\ [][Next]_vars

(***************************************************************************)
(* The controller under fair scheduling, with an epoch budget that covers  *)
(* every recall sequence.  main is one sequential loop: whenever a         *)
(* statement of it can run, it runs (weak fairness of Next).               *)
(***************************************************************************)
LiveEpochs == 5

LiveArgsChoices ==
    {[weak_supervision_strategy |-> st, uncertainty_sampling_method |-> "least_confidence", labeled_warmup_epochs |-> 0,
      add_labeled_epochs |-> 0, start_epoch |-> 0, epochs |-> LiveEpochs, add_labeled |-> ad, stop_labeled |-> sp,
      reset_model |-> rm, resume |-> FALSE] :
        st \in Strategies, ad \in {1, 2}, sp \in {1, 3}, rm \in {FALSE}}

InitLive == InitFrom(LiveArgsChoices, {d \in DatasetChoices : d.unlabeled_subset_num = 3})

SpecLive == InitLive /\ [][Next]_vars /\ WF_vars(Next)

(***************************************************************************)
(* Two runs of the random-sampling step under one configuration.  main     *)
(* seeds random, np.random and torch with args.seed (train.py lines        *)
(* 57-62); stratified_random_sampling takes no seed and builds its own     *)
(* generator.  call is [seed, unlabeled_indices, number]; ret is the       *)
(* sequence of the runs' outcomes.                                         *)
(***************************************************************************)
Seeds == {0, 1}

InitRandom ==
    /\ CtlIdle /\ SamplerIdle
    /\ ret = <<>>
    /\ \E seed \in Seeds : \E u \in DistinctSeqsOf(0..(MaxPool - 1), 0, MaxPool) : \E number \in 0..MaxPool :
            call = [seed |-> seed, unlabeled_indices |-> u, number |-> number]

\* one run: main seeds the global generators, then the sampling step draws
RandomRunReturns ==
    /\ Len(ret) < 2 /\ ~ChoiceRaises(call.unlabeled_indices, call.number)
    /\ \E positions \in stratified_random_sampling(call.unlabeled_indices, call.number) :
            ret' = Append(ret, [status |-> "returned", positions |-> positions])
    /\ UNCHANGED <<call, ctlVars, samplerVars>>

RandomRunRaises ==
    /\ Len(ret) < 2 /\ ChoiceRaises(call.unlabeled_indices, call.number)
    /\ ret' = Append(ret, [status |-> "raised"])
    /\ UNCHANGED <<call, ctlVars, samplerVars>>

NextRandom == RandomRunReturns \/ RandomRunRaises

SpecRandom == InitRandom /\ [][NextRandom]_vars

(***************************************************************************)
(* Claims about postprocess_indices (checked under SpecPromote).           *)
(***************************************************************************)
\* the array positions of call.unlabeled (1-based) that samples_indices selects
SelectedAt == {p + 1 : p \in Range(call.samples)}

\* C1: for disjoint labeled/unlabeled arrays and k distinct in-range positions,
\* postprocess_indices returns len(new_labeled) = len(labeled) + k,
\* len(new_unlabeled) = len(unlabeled) - k, disjoint outputs, and the same union.
C1_PromoteSizesAndPartition ==
    (ret # Null /\ NoDup(call.samples)) =>
        /\ Len(ret.labeled) = Len(call.labeled) + Len(call.samples)
        /\ Len(ret.unlabeled) = Len(call.unlabeled) - Len(call.samples)
        /\ Range(ret.labeled) \cap Range(ret.unlabeled) = {}
        /\ Range(ret.labeled) \cup Range(ret.unlabeled) = Range(call.labeled) \cup Range(call.unlabeled)

C1_Witness ==
    /\ ret # Null /\ NoDup(call.samples) /\ Len(call.samples) = 2
    /\ Len(call.labeled) = 3 /\ Len(call.unlabeled) = 4
    /\ Len(ret.labeled) = 5

\* C3: the old labeled array is a prefix of new_labeled, the appended entries are
\* the dataset indices found at the selected positions (not the positions), and
\* new_unlabeled is the rest of unlabeled in its original relative order; with
\* labeled=[0,1,2], unlabeled=[3,4,5,6] and position 1 the result is
\* labeled=[0,1,2,4], unlabeled=[3,5,6].
C3_PromoteKeepsIdentityAndOrder ==
    ret # Null =>
        /\ Len(ret.labeled) >= Len(call.labeled)
        /\ SubSeq(ret.labeled, 1, Len(call.labeled)) = call.labeled
        /\ {ret.labeled[i] : i \in (Len(call.labeled) + 1)..Len(ret.labeled)} = {call.unlabeled[i] : i \in SelectedAt}
        /\ \E pos \in [DOMAIN ret.unlabeled -> DOMAIN call.unlabeled] :
              /\ \A i \in DOMAIN ret.unlabeled : ret.unlabeled[i] = call.unlabeled[pos[i]]
              /\ \A i, j \in DOMAIN ret.unlabeled : i < j => pos[i] < pos[j]
              /\ {pos[i] : i \in DOMAIN ret.unlabeled} = DOMAIN call.unlabeled \ SelectedAt
        /\ (call = [labeled |-> <<0, 1, 2>>, unlabeled |-> <<3, 4, 5, 6>>, samples |-> <<1>>]
                => ret = [labeled |-> <<0, 1, 2, 4>>, unlabeled |-> <<3, 5, 6>>])

C3_Witness ==
    /\ call = [labeled |-> <<0, 1, 2>>, unlabeled |-> <<3, 4, 5, 6>>, samples |-> <<1>>]
    /\ ret = [labeled |-> <<0, 1, 2, 4>>, unlabeled |-> <<3, 5, 6>>]

(***************************************************************************)
(* Claims about UncertaintySampling (checked under SpecSampler).           *)
(***************************************************************************)
\* number of examples the unlabeled loader enumerates
N == Len(sampler.probs)

Min(a, b) == IF a < b THEN a ELSE b

Returned == result # Null /\ result.status = "returned"

\* 0-based positions that were / were not returned
Chosen == Range(result.positions)

NotChosen == {i - 1 : i \in 1..N} \ Chosen

\* C24: when the selected positions contain repeats, postprocess_indices still
\* returns disjoint arrays with the same union, the labeled array grows by the
\* number of distinct positions, and no index occurs twice in new_labeled.
C24_RepeatedPositionsPromoteOnce ==
    (ret # Null /\ ~NoDup(call.samples)) =>
        /\ Range(ret.labeled) \cap Range(ret.unlabeled) = {}
        /\ Range(ret.labeled) \cup Range(ret.unlabeled) = Range(call.labeled) \cup Range(call.unlabeled)
        /\ Len(ret.labeled) = Len(call.labeled) + Cardinality(Range(call.samples))
        /\ Len(ret.unlabeled) = Len(call.unlabeled) - Cardinality(Range(call.samples))
        /\ NoDup(ret.labeled)

C24_Witness ==
    /\ ret # Null /\ call.samples = <<1, 1>>
    /\ Len(call.labeled) = 3 /\ Len(call.unlabeled) = 4
    /\ Len(ret.labeled) = 4

\* C7: get_samples with entropy_based returns the positions of the `number`
\* highest scores, and with every other method the positions of the `number`
\* lowest scores: no example left out beats a returned one in that direction.
C7_EntropyHighestOthersLowest ==
    Returned =>
        /\ Cardinality(Chosen) = Min(sampler.number, N)
        /\ \A i \in Chosen : \A j \in NotChosen :
              IF sampler.method = "entropy_based"
              THEN ~FLess(samples[i + 1], samples[j + 1])
              ELSE ~FLess(samples[j + 1], samples[i + 1])

C7_Witness ==
    /\ Returned /\ sampler.method = "entropy_based" /\ sampler.number = 1 /\ N = 2
    /\ FLess(samples[1], samples[2]) /\ result.positions = <<1>>

\* C8 as stated: min(number, N) distinct positions in [0, N), and among equal
\* scores the example with the smaller loader position is ranked first.
C8_StableTieBreak ==
    Returned =>
        /\ Len(result.positions) = Min(sampler.number, N)
        /\ NoDup(result.positions)
        /\ \A a \in DOMAIN result.positions : result.positions[a] \in 0..(N - 1)
        /\ \A a, b \in DOMAIN result.positions : (a < b /\ samples[result.positions[a] + 1] = samples[result.positions[b] + 1]) => result.positions[a] < result.positions[b]
        /\ \A i \in Chosen : \A j \in NotChosen : samples[i + 1] = samples[j + 1] => i < j

\* C8 amended: for N >= 1 get_samples returns min(number, N) distinct positions in
\* [0, N) of scores concatenated in loader order, ranked by score in the method's
\* direction, the order among equal scores being unspecified; for N = 0 it raises.
C8_DistinctPositionsRankedByScore ==
    /\ Returned =>
        /\ N >= 1
        /\ Len(result.positions) = Min(sampler.number, N)
        /\ NoDup(result.positions)
        /\ \A a \in DOMAIN result.positions : result.positions[a] \in 0..(N - 1)
        /\ Len(samples) = N
        /\ \A i \in 1..N : samples[i] = Method(sampler.method, sampler.probs[i], sampler.feat[i], sampler.feat_train)
        /\ \A a, b \in DOMAIN result.positions : a < b =>
              IF sampler.method = "entropy_based"
              THEN ~FLess(samples[result.positions[a] + 1], samples[result.positions[b] + 1])
              ELSE ~FLess(samples[result.positions[b] + 1], samples[result.positions[a] + 1])
    /\ (result # Null /\ result.status = "raised") => N = 0
    /\ (result # Null /\ N = 0) => result.status = "raised"

C8_Witness ==
    /\ Returned /\ N = 2 /\ sampler.number = 1 /\ sampler.batch_size = 1
    /\ samples[1] = samples[2] /\ result.positions = <<1>>

\* largest and second-largest entry of a row (the second over the other positions)
TopPos(p) == CHOOSE k \in DOMAIN p : \A l \in DOMAIN p : ~FLess(p[k], p[l])

Top1(p) == p[TopPos(p)]

Top2(p) == CHOOSE x \in {p[l] : l \in DOMAIN p \ {TopPos(p)}} : \A l \in DOMAIN p \ {TopPos(p)} : ~FLess(x, p[l])

MorePeaked(p, q) == FLess(Top1(q), Top1(p)) /\ FLess(Top2(p), Top2(q))

\* C9: when p is strictly more peaked than q, least_confidence, margin_confidence
\* and ratio_confidence each score p strictly above q.
C9_PeakedScoresHigher ==
    (sampler # Null /\ sampler.method \in {"least_confidence", "margin_confidence", "ratio_confidence"}) =>
        \A i, j \in 1..Len(samples) : MorePeaked(sampler.probs[i], sampler.probs[j]) => FLess(samples[j], samples[i])

C9_Witness ==
    /\ sampler # Null /\ sampler.method = "ratio_confidence" /\ Len(samples) = 2
    /\ MorePeaked(sampler.probs[1], sampler.probs[2]) /\ sampler.probs[1] = Prob(4, 1, 1)
    /\ FLess(samples[2], samples[1])

\* cosine similarity of two feature rows
Cosine(x, y) == FDiv(Dot(x, y), FMul(Norm(x), Norm(y)))

\* C10: when the cosine similarity of an example's features to every reference
\* feature is zero, density_weighted returns exactly the least_confidence score.
C10_DensityDegeneratesToLeastConfidence ==
    (sampler # Null /\ sampler.method = "density_weighted") =>
        \A i \in 1..Len(samples) :
            (\A j \in DOMAIN sampler.feat_train : Cosine(sampler.feat[i], sampler.feat_train[j]) = <<0, 1>>)
                => FEq(samples[i], least_confidence(sampler.probs[i], sampler.feat[i], sampler.feat_train))

C10_Witness ==
    /\ sampler # Null /\ sampler.method = "density_weighted" /\ Len(samples) = 1
    /\ Len(sampler.feat_train) = 2
    /\ \A j \in DOMAIN sampler.feat_train : Cosine(sampler.feat[1], sampler.feat_train[j]) = <<0, 1>>
    /\ samples[1] = Flt(2, 3)


(***************************************************************************)
(* Claims about the cycle controller (checked under Spec).                 *)
(***************************************************************************)
\* C2: in every reachable state of a run, in each of the three strategies, the
\* controller's labeled and unlabeled index arrays are disjoint and their union
\* is the union at startup.
C2_LabeledUnlabeledPartition ==
    /\ Range(labeled_indices) \cap Range(unlabeled_indices) = {}
    /\ Range(labeled_indices) \cup Range(unlabeled_indices) = base_union

\* a run of the active_learning strategy has gone through two sampling cycles
C2_Witness ==
    /\ Cardinality(sampled_epochs) >= 2 /\ pc = "save"
    /\ Len(labeled_indices) > Len(dataset_class.labeled_indices)
    /\ args.weak_supervision_strategy = "active_learning"

\* the decision of the last evaluated epoch was made
Decided == last # Null /\ pc \in {"save", "done", "error"}

\* C4: the loop enters the sampling step at the end of epoch e if and only if
\* e > labeled_warmup_epochs and the epochs-without-improvement counter (0 when
\* recall(e) > best_recall, otherwise one more than before) is > add_labeled_epochs.
C4_SamplingIffPastWarmupAndPatience ==
    Decided =>
        LET counter == IF last.recall > last.best_before THEN 0 ELSE last.counter_before + 1
        IN  /\ last.counter = counter
            /\ last.sampled <=> (last.epoch > args.labeled_warmup_epochs /\ counter > args.add_labeled_epochs)
            /\ ~last.sampled => last_best_epochs = counter

\* a sampling step taken on a stagnating recall, after one refused during warmup
C4_Witness ==
    /\ Decided /\ pc = "save" /\ last.sampled
    /\ last.counter_before >= 1 /\ last.recall <= last.best_before
    /\ args.labeled_warmup_epochs = 2 /\ last.epoch = 3

\* the run was fed the recalls 0.5, 0.6, 0.6 at epochs 0, 1, 2 with warmup 2, patience 1
FixtureFed == args.labeled_warmup_epochs = 2 /\ args.add_labeled_epochs = 1 /\ fed >= 3

\* C5 as stated: with warmup 2, patience 1 and recalls 0.5, 0.6, 0.6 at epochs
\* 0, 1, 2, sampling triggers exactly at epoch 2.
C5_SamplingExactlyAtEpochTwo == (FixtureFed /\ Decided) => sampled_epochs \cap {0, 1, 2} = {2}

\* C5 amended: with warmup 2, patience 1 and recalls 0.5, 0.6, 0.6 at epochs
\* 0, 1, 2, no sampling triggers at epochs 0, 1, 2 (epoch 2 does not exceed the
\* warmup and the counter, 1, does not exceed the patience); when the recall is
\* 0.6 again at epoch 3, sampling triggers at epoch 3.
C5_NoSamplingThroughEpochTwo ==
    (FixtureFed /\ Decided) =>
        /\ sampled_epochs \cap {0, 1, 2} = {}
        /\ (fed = 4 /\ last.epoch = 3) => 3 \in sampled_epochs

\* the fixture was fed through epoch 3 and the first sampling step came there
C5_Witness == FixtureFed /\ Decided /\ fed = 4 /\ last.epoch = 3 /\ sampled_epochs = {3} /\ last.counter = 2

\* C6: the loop stops at the end of the first epoch at which current_labeled >
\* stop_labeled (no training epoch runs after it), and while current_labeled <=
\* stop_labeled it goes on until the epoch budget is used up.
C6_StopsWhenLabeledExceedsThreshold ==
    /\ (pc \in {"train", "validate", "decide"} /\ epoch > args.start_epoch) => current_labeled <= args.stop_labeled
    /\ (pc = "save" /\ current_labeled > args.stop_labeled) => (epoch = args.start_epoch \/ last.sampled)
    /\ pc = "done" => (current_labeled > args.stop_labeled \/ epoch = args.epochs - 1)

\* a run stopped by the threshold after a sampling step, with epochs left
C6_Witness ==
    /\ pc = "done" /\ current_labeled > args.stop_labeled
    /\ epoch > args.start_epoch /\ epoch + 1 < args.epochs
    /\ current_labeled - args.add_labeled <= args.stop_labeled


(***************************************************************************)
(* Claims about stratified_random_sampling (checked under SpecRandom).     *)
(***************************************************************************)
\* C11: stratified_random_sampling(unlabeled, k) with k <= len(unlabeled) returns
\* exactly k pairwise distinct positions in [0, len(unlabeled)), and with
\* k = len(unlabeled) a permutation of all positions.
C11_RandomPositionsDistinctInRange ==
    \A r \in DOMAIN ret :
        LET n == Len(call.unlabeled_indices)
        IN  call.number <= n =>
              /\ ret[r].status = "returned"
              /\ Len(ret[r].positions) = call.number
              /\ NoDup(ret[r].positions)
              /\ Range(ret[r].positions) \subseteq 0..(n - 1)
              /\ call.number = n => Range(ret[r].positions) = 0..(n - 1)

\* a run that drew all three positions of a pool of three, not in array order
C11_Witness ==
    /\ Len(ret) >= 1 /\ call.number = 3 /\ Len(call.unlabeled_indices) = 3
    /\ ret[1].status = "returned" /\ ret[1].positions = <<2, 0, 1>>

\* C12: two runs configured with the same seed, the same unlabeled sequence and
\* the same k obtain the same positions from stratified_random_sampling.
C12_SameSeedSamePositions == Len(ret) = 2 => ret[1] = ret[2]


(***************************************************************************)
(* Claims about the sampling step of the controller (checked under Spec).  *)
(***************************************************************************)
\* a pseudo-labeling sampling step has just been made
PseudoStepDone == promotion # Null /\ args.weak_supervision_strategy = "semi_supervised"

\* the dataset index at position p of the unlabeled array before the promotion
PromotedIndex(p) == promotion.unlabeled_before[p + 1]

\* the dataset indices the returned positions stand for
PromotedSet == {PromotedIndex(promotion.samples_indices[i]) : i \in DOMAIN promotion.samples_indices}

\* C13: after a pseudo-labeling sampling step, for every selected position p the
\* label stored for the promoted dataset index (the entry of the unlabeled array at
\* position p before promotion) is the pseudo-label assigned to that example, and
\* the labels of all non-promoted dataset indices are unchanged.
C13_PseudoLabelStoredAtPromotedIndex ==
    PseudoStepDone =>
        /\ \A i \in DOMAIN promotion.samples_indices :
              targets[PromotedIndex(promotion.samples_indices[i]) + 1] = promotion.samples_targets[i]
        /\ \A d \in (0..(Len(targets) - 1)) \ PromotedSet : targets[d + 1] = promotion.targets_before[d + 1]

\* C14: in the pseudo-labeling sampling step every position the pseudo-labeler
\* returned is promoted, whether or not its pseudo-label agrees with the stored
\* label: the indices that moved from unlabeled to labeled are exactly the entries
\* at the returned positions, whatever the agreement flags are.
C14_PromotionIgnoresAgreement ==
    PseudoStepDone =>
        /\ Range(labeled_indices) \ Range(promotion.labeled_before) = PromotedSet
        /\ Range(promotion.unlabeled_before) \ Range(unlabeled_indices) = PromotedSet
        /\ Len(promotion.pseudo_labels_acc) = Len(promotion.samples_indices)

\* a step whose flags hold an agreement and a disagreement, both promoted
C14_Witness ==
    /\ PseudoStepDone /\ Len(promotion.samples_indices) >= 2
    /\ 0 \in Range(promotion.pseudo_labels_acc) /\ 1 \in Range(promotion.pseudo_labels_acc)


(***************************************************************************)
(* Claim about the sampler's constructor (checked under SpecConstruct).    *)
(***************************************************************************)
\* C15: constructing the sampler with a method name that is not one of its
\* scoring methods fails at construction, before any sampling step; no sampler
\* object with an unresolved method exists in any reachable state.
C15_UnknownMethodFailsAtConstruction ==
    call.uncertainty_sampling_method \notin Methods =>
        /\ sampler = Null
        /\ result # Null => result.at = "construction"


(***************************************************************************)
(* Claim about resume_model (checked under SpecResume).                    *)
(***************************************************************************)
\* C16: when the best-model checkpoint file does not exist, resume_model raises
\* no error and returns the model, optimizer and scheduler it was given, with
\* args.start_epoch unchanged.
C16_MissingCheckpointIsNotFatal ==
    (call.file = Null /\ ret # Null) =>
        /\ ret.status = "returned"
        /\ ret.model = call.model /\ ret.optimizer = call.optimizer /\ ret.scheduler = call.scheduler
        /\ ret.start_epoch = call.start_epoch

\* a call without a checkpoint file that was given an optimizer and returned
C16_Witness == call.file = Null /\ ret # Null /\ call.optimizer # Null /\ call.start_epoch = 1 /\ ret.status = "returned"


(***************************************************************************)
(* Claims about the controller's bookkeeping (checked under Spec).         *)
(***************************************************************************)
\* the epoch's checkpoint was written: the epoch is complete
EpochCompleted == pc \in {"train", "done"} /\ checkpoint_dir.checkpoint # Null

\* C17: for every recall sequence and every patience add_labeled_epochs >= 0,
\* after each completed epoch best_recall is the maximum of 0 and all recalls seen
\* so far, best_model and best_report are those of the epoch that achieved it (the
\* initial model copy and no report if no recall exceeded 0), and the checkpoint
\* written in that epoch carries best_model's weights and best_recall.
C17_BestTracksMaximumRecall ==
    (args # Null /\ args.add_labeled_epochs >= 0 /\ EpochCompleted) =>
        /\ best_recall = seen.max
        /\ best_model = seen.at
        /\ best_report = (IF seen.at = -1 THEN Null ELSE [epoch |-> seen.at, recall |-> seen.max])
        /\ checkpoint_dir.checkpoint.state_dict = best_model
        /\ checkpoint_dir.checkpoint.best_recall = best_recall

\* a finished run with a sampling step whose best epoch was not the first and
\* was followed by an epoch that did not improve
C17_Witness ==
    /\ args # Null /\ args.add_labeled_epochs >= 0 /\ EpochCompleted /\ pc = "done"
    /\ sampled_epochs # {} /\ seen.at >= 1 /\ epoch > seen.at
    /\ checkpoint_dir.checkpoint.state_dict = seen.at


(***************************************************************************)
(* Claims about the window and the frame of the index arrays (checked      *)
(* under Spec).                                                            *)
(***************************************************************************)
\* C18: in the active-learning sampling step every position p returned by
\* get_samples lies inside the unlabeled window the loader scored, and the dataset
\* index postprocess_indices promotes for p (the controller's unlabeled_indices[p])
\* is the dataset index of the example the unlabeled loader enumerated at position p.
C18_PositionsAddressTheScoredWindow ==
    (promotion # Null /\ args.weak_supervision_strategy = "active_learning") =>
        \A i \in DOMAIN promotion.samples_indices :
            LET p == promotion.samples_indices[i]
            IN  /\ p \in 0..(Len(promotion.window_before) - 1)
                /\ promotion.unlabeled_before[p + 1] = promotion.window_before[p + 1]
                /\ promotion.window_before[p + 1] \in Range(labeled_indices) \ Range(promotion.labeled_before)

\* an active-learning step on a window shorter than the unlabeled array, which
\* the shuffle had reordered, promoting the window's second entry first
C18_Witness ==
    /\ promotion # Null /\ args.weak_supervision_strategy = "active_learning"
    /\ Len(promotion.window_before) < Len(promotion.unlabeled_before)
    /\ promotion.unlabeled_before # dataset_class.unlabeled_indices
    /\ Len(promotion.samples_indices) = 2 /\ promotion.samples_indices[1] = 1

\* t is a reordering of s
IsPermutation(s, t) == Len(s) = Len(t) /\ \A x \in Range(s) \cup Range(t) : Cardinality({i \in DOMAIN s : s[i] = x}) = Cardinality({i \in DOMAIN t : t[i] = x})

\* C19: every call of create_loaders (at startup and after each promotion) leaves
\* the labeled array unchanged, changes the unlabeled array only by a permutation,
\* and sets the window to the first min(unlabeled_subset_num, len(unlabeled))
\* entries of the reshuffled array; hence the window is a subset of the unlabeled
\* set, disjoint from the labeled set, and the labeled loader's indices are the
\* controller's labeled array.
C19_LoadersFollowTheIndexArrays ==
    (args # Null /\ pc # "start") =>
        LET n == dataset_class.unlabeled_subset_num
            k == IF n < Len(unlabeled_indices) THEN n ELSE Len(unlabeled_indices)
        IN  /\ labeled_dataset.indices = labeled_indices
            /\ Window = [i \in 1..k |-> unlabeled_indices[i]]
            /\ Range(Window) \subseteq Range(unlabeled_indices)
            /\ Range(Window) \cap Range(labeled_indices) = {}
            /\ promotion # Null =>
                  /\ labeled_indices = promotion.labeled_promoted
                  /\ IsPermutation(promotion.unlabeled_promoted, unlabeled_indices)
            /\ sampled_epochs = {} =>
                  /\ labeled_indices = dataset_class.labeled_indices
                  /\ IsPermutation(dataset_class.unlabeled_indices, unlabeled_indices)

\* loaders rebuilt after a promotion: the rest of the pool was reordered by the
\* shuffle and is shorter than unlabeled_subset_num
C19_Witness ==
    /\ promotion # Null /\ pc = "save"
    /\ Len(unlabeled_indices) = 2 /\ unlabeled_indices # promotion.unlabeled_promoted
    /\ Len(Window) = 2 /\ dataset_class.unlabeled_subset_num = 3

\* the labeled or the unlabeled index set differs between the two states of a step
IndexSetsChange == Range(labeled_indices') # Range(labeled_indices) \/ Range(unlabeled_indices') # Range(unlabeled_indices)

\* C20: the labeled and unlabeled index sets change only in a sampling step, and
\* once per sampling event (one promotion, at most one event per epoch, both
\* sets changing together when something was selected); training passes,
\* validation passes, checkpoint saves and non-sampling epochs leave both unchanged.
C20_IndexSetsChangeOnlyBySampling ==
    [][/\ IndexSetsChange =>
            /\ pc = "decide" /\ pc' = "save" /\ last'.sampled
            /\ epoch \notin sampled_epochs /\ sampled_epochs' = sampled_epochs \cup {epoch}
            /\ promotion = Null /\ promotion' # Null
            /\ Range(labeled_indices') # Range(labeled_indices)
            /\ Range(unlabeled_indices') # Range(unlabeled_indices)
       /\ (promotion' # Null /\ promotion = Null /\ promotion'.samples_indices # <<>>) => IndexSetsChange
       /\ (pc = "decide" /\ ~last'.sampled) => ~IndexSetsChange]_vars

\* the second sampling event of a run has changed the sets again
C20_Witness ==
    /\ promotion # Null /\ Cardinality(sampled_epochs) = 2
    /\ Range(labeled_indices) # Range(promotion.labeled_before)
    /\ Len(promotion.labeled_before) > Len(dataset_class.labeled_indices)


\* number of sampling events so far
SamplingEvents == Cardinality(sampled_epochs)

SetMax(S) == CHOOSE x \in S : \A y \in S : y <= x

\* a sampling step has just finished and its epoch's checkpoint is not saved yet
JustSampled == promotion # Null /\ pc = "save"

\* C21: on a sampling event the model, optimizer and scheduler are replaced by a
\* fresh initialization exactly when reset_model is configured (otherwise the
\* trained model continues), and the loss function is recomputed after every
\* sampling event and at no other epoch.
C21_ResetIsFreshIffConfigured ==
    /\ JustSampled =>
          /\ args.reset_model => (model = -2 /\ optimizer.made = epoch /\ scheduler.made = epoch)
          /\ ~args.reset_model => (model = epoch /\ optimizer.made = -1 /\ scheduler.made = -1)
          /\ criterion = epoch
    /\ pc # "error" => criterion = SetMax(sampled_epochs \cup {-1})

\* C22: save_checkpoint is called exactly once per epoch, after the epoch's
\* training, validation and (if triggered) sampling, also in the epoch whose
\* stop test ends the loop, and the stored epoch field is the finished epoch's
\* index plus one.
C22_OneCheckpointPerEpoch ==
    /\ [](/\ pc \in {"train", "validate", "decide", "save", "error"} => saves = epoch
          /\ pc = "done" => saves = epoch + 1
          /\ pc \in {"start", "train", "validate", "decide", "save", "error", "done"} =>
                IF saves = 0 THEN checkpoint_dir.checkpoint = Null ELSE checkpoint_dir.checkpoint.epoch = saves)
    /\ [][saves' # saves =>
             /\ pc = "save" /\ saves' = saves + 1
             /\ model \in {epoch, -2} \cup (IF checkpoint_dir.model_best = Null THEN {} ELSE {checkpoint_dir.model_best.state_dict})
             /\ last # Null /\ last.epoch = epoch /\ last.recall = val_recall
             /\ last.sampled = SamplingDue(epoch, last.counter)
             /\ last.sampled = (promotion # Null)
             /\ checkpoint_dir'.checkpoint.epoch = epoch + 1]_vars

C22_Witness ==
    /\ pc = "done" /\ saves = epoch + 1 /\ epoch + 1 < args.epochs
    /\ last.sampled /\ last.epoch = epoch /\ current_labeled > args.stop_labeled
    /\ checkpoint_dir.checkpoint.epoch = epoch + 1

\* C23: in every scoring pass of get_samples the model is in evaluation mode,
\* and in every training pass, those after a sampling step included, it is in
\* training mode.
C23_EvalWhileScoringTrainWhileTraining ==
    /\ (promotion # Null /\ args.weak_supervision_strategy = "active_learning") => promotion.scored = "eval"
    /\ pc = "validate" => mode = "train"

C23_Witness ==
    /\ pc = "validate" /\ (epoch - 1) \in sampled_epochs /\ mode = "train"
    /\ args.weak_supervision_strategy = "active_learning" /\ ~args.reset_model

\* C25: the epoch after a sampling event starts with the stagnation counter at
\* zero, no sampling happens at an epoch <= labeled_warmup_epochs, and for
\* add_labeled_epochs >= 0 two sampling events are at least
\* add_labeled_epochs + 1 epochs apart.
C25_SamplingEventsAreSpaced ==
    /\ (pc = "train" /\ (epoch - 1) \in sampled_epochs) => last_best_epochs = 0
    /\ JustSampled => last_best_epochs = 0
    /\ \A e \in sampled_epochs : e > args.labeled_warmup_epochs
    /\ args.add_labeled_epochs >= 0 =>
          \A e1, e2 \in sampled_epochs : e1 < e2 => e2 - e1 >= args.add_labeled_epochs + 1

C25_Witness == args.add_labeled_epochs = 1 /\ sampled_epochs = {1, 3} /\ pc = "done"

\* C26: best_recall never decreases and no sampling event or model reset
\* changes it, and an epoch counts as an improvement only if its recall exceeds
\* every recall validated before it, earlier cycles included.
C26_ImprovementExceedsEveryEarlierRecall ==
    /\ Decided => best_recall >= last.best_before
    /\ (Decided /\ last.sampled) => best_recall = last.best_before
    /\ (Decided /\ last.counter = 0) => seen = [max |-> last.recall, at |-> last.epoch]

\* C27 as stated: while at least add_labeled_num examples remain unlabeled,
\* after n sampling events len(labeled_indices) = initial + n * add_labeled_num
\* and current_labeled = start_labeled + n * add_labeled.
C27_CountersFollowTheEvents ==
    (pc # "error" /\ SamplingEvents * dataset_class.add_labeled_num <= Len(dataset_class.unlabeled_indices)) =>
        /\ Len(labeled_indices) = Len(dataset_class.labeled_indices) + SamplingEvents * dataset_class.add_labeled_num
        /\ current_labeled = dataset_class.start_labeled + SamplingEvents * args.add_labeled

\* C27 amended: the same, when in addition the scored window of the
\* active_learning and semi_supervised strategies (unlabeled_subset_num) holds
\* at least add_labeled_num examples.
C27_CountersFollowTheEventsInWindow ==
    (/\ pc # "error"
     /\ SamplingEvents * dataset_class.add_labeled_num <= Len(dataset_class.unlabeled_indices)
     /\ (args.weak_supervision_strategy = "random_sampling" \/ dataset_class.add_labeled_num <= dataset_class.unlabeled_subset_num)) =>
        /\ Len(labeled_indices) = Len(dataset_class.labeled_indices) + SamplingEvents * dataset_class.add_labeled_num
        /\ current_labeled = dataset_class.start_labeled + SamplingEvents * args.add_labeled

C27_Witness ==
    /\ pc = "save" /\ SamplingEvents = 2 /\ dataset_class.add_labeled_num = 1
    /\ args.weak_supervision_strategy = "active_learning" /\ args.add_labeled = 1
    /\ Len(labeled_indices) = 4 /\ current_labeled = 4

\* C28: with start_labeled <= stop_labeled and add_labeled > 0, a loop ended by
\* the stop test has stop_labeled < current_labeled <= stop_labeled + add_labeled,
\* and no sampling happens once current_labeled exceeds stop_labeled.
C28_OvershootAtMostOneBatch ==
    (dataset_class.start_labeled <= args.stop_labeled /\ args.add_labeled > 0) =>
        /\ (pc = "done" /\ (epoch + 1 < args.epochs \/ current_labeled > args.stop_labeled)) =>
              (args.stop_labeled < current_labeled /\ current_labeled <= args.stop_labeled + args.add_labeled)
        /\ (Decided /\ last.sampled /\ pc # "error") => current_labeled - args.add_labeled <= args.stop_labeled
        /\ pc = "decide" => current_labeled <= args.stop_labeled

C28_Witness ==
    /\ pc = "done" /\ epoch + 1 < args.epochs /\ args.add_labeled = 1
    /\ dataset_class.start_labeled <= args.stop_labeled
    /\ current_labeled = args.stop_labeled + args.add_labeled


\* number of sampling events the stop threshold needs (0 when it is passed at the start)
EventsNeeded == IF dataset_class.start_labeled > args.stop_labeled THEN 0 ELSE (args.stop_labeled - dataset_class.start_labeled) \div args.add_labeled + 1

\* the epochs cover the warmup and, for every improvement the recall values allow
\* and every sampling event needed, a full patience window
BudgetSuffices ==
    args.epochs >= args.labeled_warmup_epochs + (Cardinality(RecallVals \ {0}) + EventsNeeded) * (args.add_labeled_epochs + 1) + 1

\* past the warmup, an epoch that leaves the counter above the patience samples
StagnationSamples == (Decided /\ last.epoch > args.labeled_warmup_epochs /\ last.counter > args.add_labeled_epochs) => last.sampled

\* the hypotheses of C29
LiveHypotheses == args.add_labeled > 0 /\ args.add_labeled_epochs >= 0 /\ BudgetSuffices

\* C29 as stated: with finitely many recall values, add_labeled > 0,
\* add_labeled_epochs >= 0 and a large enough epoch budget, every run eventually
\* performs a sampling event after warmup, at most add_labeled_epochs + 1 epochs
\* after the last improvement, and eventually ends by the stop test
\* current_labeled > stop_labeled.
C29_EverySamplesAndStopsByTheTest ==
    /\ [](LiveHypotheses => StagnationSamples)
    /\ LiveHypotheses => <>(sampled_epochs # {} /\ pc = "done" /\ current_labeled > args.stop_labeled)

\* C29 amended: if moreover start_labeled <= stop_labeled, every run eventually
\* enters a sampling step after warmup, and eventually ends by the stop test or
\* with the exception of a sampling call on an exhausted pool, never by running
\* out of epochs below the threshold.
C29_SamplesAndStopsOrRaises ==
    /\ [](LiveHypotheses => StagnationSamples)
    /\ []((LiveHypotheses /\ pc = "done") => current_labeled > args.stop_labeled)
    /\ (LiveHypotheses /\ dataset_class.start_labeled <= args.stop_labeled) =>
          <>(/\ sampled_epochs # {} /\ \A e \in sampled_epochs : e > args.labeled_warmup_epochs
             /\ pc = "error" \/ (pc = "done" /\ current_labeled > args.stop_labeled))

C29_Witness ==
    /\ args.epochs = LiveEpochs /\ dataset_class.start_labeled <= args.stop_labeled
    /\ pc = "done" /\ current_labeled > args.stop_labeled
    /\ SamplingEvents = 2 /\ epoch = 4 /\ seen.max = 6

=============================================================================
